---- MODULE Spec2Model ----
(***************************************************************************)
(* Model of the SpeechToText builder (lib/classes/SpeechToText.class.js):  *)
(* a chainable wrapper around the host's SpeechRecognition engine.         *)
(*                                                                         *)
(* The caller constructs one builder, calls its setters and its            *)
(* start/stop methods, and reads its two accessors; the host dispatches    *)
(* engine events to whatever handler sits in the engine's on<event> slot.  *)
(***************************************************************************)
EXTENDS Integers, Sequences, FiniteSets, TLC

\* ---------------------------------------------------------------- bounds
\* Number of builder method calls the caller makes in one behaviour.
MaxOps == 2
\* Longest result list a result event carries.
MaxGroups == 2
\* Number of times an engine field is assigned by code other than the builder.
MaxHostWrites == 1

\* ------------------------------------------------------------ input sets
Undefined == "undefined"
BuilderId == "SpeechToText#1"
\* The value of this.recognition before an engine object is assigned to it;
\* engine objects are numbered from 1 in their order of creation.
NoEngine == 0
Languages == {"en-US", "fr-FR"}
AlternativeCounts == {0, 5}
Callbacks == {"f", "g"}

\* The ten event kinds of the engine, by the name of their on<kind> slot.
EventKinds ==
    {"result", "start", "audiostart", "soundstart", "soundend",
     "speechstart", "speechend", "nomatch", "error", "end"}

VARIABLES
    window,       \* which recognition constructors the host environment has
    self,         \* the builder instance the caller holds, or Undefined
    recognition,  \* the builder's private field: its engine handle
    created,      \* number of engine objects constructed so far
    engine,       \* the fields of the engine object
    registered,   \* per event kind, the callbacks the caller passed, in order
    lastCall,     \* the builder call made in the last step: op, arg, return
    thrown,       \* the exception that escaped in the last step, or "none"
    engineCalls,  \* engine methods called during the last step
    event,        \* the event the host dispatched in the last step
    invoked,      \* caller callbacks invoked during the last step
    ops,          \* number of builder method calls so far
    calls,        \* number of startRecognition and of stopRecognition calls
    requests,     \* number of start and of stop calls the engine received
    writes        \* number of engine field assignments not made by the builder

vars ==
    <<window, self, recognition, created, engine, registered, lastCall,
      thrown, engineCalls, event, invoked, ops, calls, requests, writes>>

\* ------------------------------------------------------------ the engine
\* An empty handler slot.
NoHandler == [type |-> "null"]
\* A caller callback stored in a slot as it is.
Raw(callback) == [type |-> "raw", fn |-> callback]
\* The function setOnResult builds around the caller's callback.
Wrapper(callback) == [type |-> "wrapper", callback |-> callback]

NoEvent == [type |-> "none"]
NoCall == [op |-> "none", arg |-> Undefined, ret |-> Undefined]

\* A new engine object: default fields, not started, no handler in any slot.
NewSpeechRecognition ==
    [lang |-> "", interimResults |-> FALSE, maxAlternatives |-> 1,
     continuous |-> FALSE, started |-> FALSE,
     onresult |-> NoHandler, onstart |-> NoHandler, onaudiostart |-> NoHandler,
     onsoundstart |-> NoHandler, onsoundend |-> NoHandler,
     onspeechstart |-> NoHandler, onspeechend |-> NoHandler,
     onnomatch |-> NoHandler, onerror |-> NoHandler, onend |-> NoHandler]

\* The host environments: one without a recognition constructor, one with
\* the standard constructor and one with the prefixed constructor only.
Hosts ==
    {[SpeechRecognition |-> FALSE, webkitSpeechRecognition |-> FALSE],
     [SpeechRecognition |-> TRUE, webkitSpeechRecognition |-> FALSE],
     [SpeechRecognition |-> FALSE, webkitSpeechRecognition |-> TRUE]}

\* window.SpeechRecognition || window.webkitSpeechRecognition
SpeechRecognition(w) ==
    IF w.SpeechRecognition THEN "SpeechRecognition"
    ELSE IF w.webkitSpeechRecognition THEN "webkitSpeechRecognition"
    ELSE Undefined

Init ==
    /\ window \in Hosts
    /\ self = Undefined
    /\ recognition = NoEngine
    /\ created = 0
    /\ engine = NewSpeechRecognition
    /\ registered = [k \in EventKinds |-> <<>>]
    /\ lastCall = NoCall
    /\ thrown = "none"
    /\ engineCalls = <<>>
    /\ event = NoEvent
    /\ invoked = <<>>
    /\ ops = 0
    /\ calls = [startRecognition |-> 0, stopRecognition |-> 0]
    /\ requests = [start |-> 0, stop |-> 0]
    /\ writes = 0

\* ------------------------------------------------------------ constructor
\* new SpeechToText(): throws when the host has no recognition constructor,
\* otherwise creates the engine object and keeps it in this.recognition.
\* The constructor without its capability check.
Constructor_noCheck ==
    /\ self = Undefined
    /\ IF SpeechRecognition(window) = Undefined
       THEN UNCHANGED <<recognition, created, engine>>
       ELSE /\ created' = created + 1
            /\ recognition' = created + 1
            /\ engine' = NewSpeechRecognition
    /\ self' = BuilderId
    /\ lastCall' = [op |-> "new", arg |-> Undefined, ret |-> BuilderId]
    /\ thrown' = "none"
    /\ engineCalls' = <<>>
    /\ event' = NoEvent
    /\ invoked' = <<>>
    /\ UNCHANGED <<window, registered, ops, calls, requests, writes>>

Constructor ==
    /\ self = Undefined
    /\ IF SpeechRecognition(window) = Undefined
       THEN /\ lastCall' = [op |-> "new", arg |-> Undefined, ret |-> Undefined]
            /\ thrown' = "Error"
            /\ UNCHANGED <<self, recognition, created, engine>>
       ELSE /\ created' = created + 1
            /\ recognition' = created + 1
            /\ engine' = NewSpeechRecognition
            /\ self' = BuilderId
            /\ lastCall' = [op |-> "new", arg |-> Undefined, ret |-> BuilderId]
            /\ thrown' = "none"
    /\ engineCalls' = <<>>
    /\ event' = NoEvent
    /\ invoked' = <<>>
    /\ UNCHANGED <<window, registered, ops, calls, requests, writes>>

\* A builder method call that runs to its return statement.
Returns(op, arg, ret) ==
    /\ self # Undefined
    /\ ops < MaxOps
    /\ ops' = ops + 1
    /\ lastCall' = [op |-> op, arg |-> arg, ret |-> ret]
    /\ thrown' = "none"
    /\ event' = NoEvent
    /\ invoked' = <<>>
    /\ UNCHANGED <<window, self, recognition, created, writes>>

\* ------------------------------------------------- configuration setters
\* The assignment each setter makes to the engine object r.
\* setInterimResults assigning the field of setContinuous.
AssignInterimResults_wrongField(r, newBool) == [r EXCEPT !.continuous = newBool]
AssignInterimResults(r, newBool) == [r EXCEPT !.interimResults = newBool]
AssignLang(r, language) == [r EXCEPT !.lang = language]
\* setMaxAlternatives enforcing a minimum of one alternative.
AssignMaxAlternatives_clamped(r, num) ==
    [r EXCEPT !.maxAlternatives = IF num < 1 THEN 1 ELSE num]
AssignMaxAlternatives(r, num) == [r EXCEPT !.maxAlternatives = num]
AssignContinuous(r, isContinuous) == [r EXCEPT !.continuous = isContinuous]

setInterimResults(newBool) ==
    /\ engine' = AssignInterimResults(engine, newBool)
    /\ Returns("setInterimResults", newBool, self)
    /\ engineCalls' = <<>>
    /\ UNCHANGED <<registered, calls, requests>>

setLanguage(language) ==
    /\ engine' = AssignLang(engine, language)
    /\ Returns("setLanguage", language, self)
    /\ engineCalls' = <<>>
    /\ UNCHANGED <<registered, calls, requests>>

setMaxAlternatives(num) ==
    /\ engine' = AssignMaxAlternatives(engine, num)
    /\ Returns("setMaxAlternatives", num, self)
    /\ engineCalls' = <<>>
    /\ UNCHANGED <<registered, calls, requests>>

setContinuous(isContinuous) ==
    /\ engine' = AssignContinuous(engine, isContinuous)
    /\ Returns("setContinuous", isContinuous, self)
    /\ engineCalls' = <<>>
    /\ UNCHANGED <<registered, calls, requests>>

\* ------------------------------------------------------ callback setters
\* The caller passed `callback` to the setter of event kind `kind`.
Registers(kind, callback) ==
    /\ registered' = [registered EXCEPT ![kind] = Append(@, callback)]
    /\ engineCalls' = <<>>
    /\ UNCHANGED <<calls, requests>>

\* The callback the caller last passed to the setter of `kind`, if any.
Registered(kind) ==
    IF registered[kind] = <<>> THEN Undefined
    ELSE registered[kind][Len(registered[kind])]

\* setOnResult keeping a handler that is already in the slot.
setOnResult_keepsFirst(callback) ==
    /\ engine' = IF engine.onresult = NoHandler
                 THEN [engine EXCEPT !.onresult = Wrapper(callback)]
                 ELSE engine
    /\ Registers("result", callback)
    /\ Returns("setOnResult", callback, self)

setOnResult(callback) ==
    /\ engine' = [engine EXCEPT !.onresult = Wrapper(callback)]
    /\ Registers("result", callback)
    /\ Returns("setOnResult", callback, self)

\* setOnEnd storing a function built around the callback, as setOnResult does.
setOnEnd_wrapped(callback) ==
    /\ engine' = [engine EXCEPT !.onend = Wrapper(callback)]
    /\ Registers("end", callback)
    /\ Returns("setOnEnd", callback, self)

setOnEnd(callback) ==
    /\ engine' = [engine EXCEPT !.onend = Raw(callback)]
    /\ Registers("end", callback)
    /\ Returns("setOnEnd", callback, self)

\* setOnError assigning the slot of setOnEnd.
setOnError_wrongSlot(callback) ==
    /\ engine' = [engine EXCEPT !.onend = Raw(callback)]
    /\ Registers("error", callback)
    /\ Returns("setOnError", callback, self)

setOnError(callback) ==
    /\ engine' = [engine EXCEPT !.onerror = Raw(callback)]
    /\ Registers("error", callback)
    /\ Returns("setOnError", callback, self)

setOnStart(callback) ==
    /\ engine' = [engine EXCEPT !.onstart = Raw(callback)]
    /\ Registers("start", callback)
    /\ Returns("setOnStart", callback, self)

\* The source assigns the onstart slot here, not onaudiostart.
setOnAudioStart(callback) ==
    /\ engine' = [engine EXCEPT !.onstart = Raw(callback)]
    /\ Registers("audiostart", callback)
    /\ Returns("setOnAudioStart", callback, self)

setOnSoundStart(callback) ==
    /\ engine' = [engine EXCEPT !.onsoundstart = Raw(callback)]
    /\ Registers("soundstart", callback)
    /\ Returns("setOnSoundStart", callback, self)

setOnSoundEnd(callback) ==
    /\ engine' = [engine EXCEPT !.onsoundend = Raw(callback)]
    /\ Registers("soundend", callback)
    /\ Returns("setOnSoundEnd", callback, self)

setOnSpeechStart(callback) ==
    /\ engine' = [engine EXCEPT !.onspeechstart = Raw(callback)]
    /\ Registers("speechstart", callback)
    /\ Returns("setOnSpeechStart", callback, self)

setOnSpeechEnd(callback) ==
    /\ engine' = [engine EXCEPT !.onspeechend = Raw(callback)]
    /\ Registers("speechend", callback)
    /\ Returns("setOnSpeechEnd", callback, self)

\* setOnNoMatch without its return statement.
setOnNoMatch_noReturn(callback) ==
    /\ engine' = [engine EXCEPT !.onnomatch = Raw(callback)]
    /\ Registers("nomatch", callback)
    /\ Returns("setOnNoMatch", callback, Undefined)

setOnNoMatch(callback) ==
    /\ engine' = [engine EXCEPT !.onnomatch = Raw(callback)]
    /\ Registers("nomatch", callback)
    /\ Returns("setOnNoMatch", callback, self)

\* ------------------------------------------------------ lifecycle control
\* A builder method call that an exception leaves before its return statement.
Raises(op, exception) ==
    /\ self # Undefined
    /\ ops < MaxOps
    /\ ops' = ops + 1
    /\ lastCall' = [op |-> op, arg |-> Undefined, ret |-> Undefined]
    /\ thrown' = exception
    /\ event' = NoEvent
    /\ invoked' = <<>>
    /\ UNCHANGED <<window, self, recognition, created, writes>>

\* What the engine object r may do with a start() call: an engine that is
\* not started starts; what a started engine does is the host's choice, and
\* it either raises InvalidStateError or takes the call and returns.
EngineStart(r) ==
    IF r.started
    THEN {[engine |-> r, raised |-> "InvalidStateError"],
          [engine |-> r, raised |-> "none"]}
    ELSE {[engine |-> [r EXCEPT !.started = TRUE], raised |-> "none"]}

\* What the engine object r may do with a stop() call: it takes the request
\* and ends later, with an end event.
EngineStop(r) == {[engine |-> r, raised |-> "none"]}

\* startRecognition refusing, by itself, to start twice.
startRecognition_guarded ==
    /\ calls' = [calls EXCEPT !.startRecognition = @ + 1]
    /\ IF engine.started
       THEN /\ engineCalls' = <<>>
            /\ Raises("startRecognition", "Error")
            /\ UNCHANGED <<engine, requests>>
       ELSE /\ engineCalls' = <<"start">>
            /\ requests' = [requests EXCEPT !.start = @ + 1]
            /\ \E o \in EngineStart(engine) :
                  /\ engine' = o.engine
                  /\ Returns("startRecognition", Undefined, self)
    /\ UNCHANGED registered

\* The method has no try/catch: what recognition.start() raises leaves
\* startRecognition before `return _this`.
startRecognition ==
    /\ engineCalls' = <<"start">>
    /\ calls' = [calls EXCEPT !.startRecognition = @ + 1]
    /\ requests' = [requests EXCEPT !.start = @ + 1]
    /\ \E o \in EngineStart(engine) :
          /\ engine' = o.engine
          /\ IF o.raised = "none"
             THEN Returns("startRecognition", Undefined, self)
             ELSE Raises("startRecognition", o.raised)
    /\ UNCHANGED registered

\* stopRecognition calling the engine's start.
stopRecognition_callsStart ==
    /\ engineCalls' = <<"start">>
    /\ calls' = [calls EXCEPT !.stopRecognition = @ + 1]
    /\ requests' = [requests EXCEPT !.start = @ + 1]
    /\ \E o \in EngineStop(engine) :
          /\ engine' = o.engine
          /\ IF o.raised = "none"
             THEN Returns("stopRecognition", Undefined, self)
             ELSE Raises("stopRecognition", o.raised)
    /\ UNCHANGED registered

\* stopRecognition also emptying the result and end slots.
stopRecognition_clearsHandlers ==
    /\ engineCalls' = <<"stop">>
    /\ calls' = [calls EXCEPT !.stopRecognition = @ + 1]
    /\ requests' = [requests EXCEPT !.stop = @ + 1]
    /\ engine' = [engine EXCEPT !.onresult = NoHandler, !.onend = NoHandler]
    /\ Returns("stopRecognition", Undefined, self)
    /\ UNCHANGED registered

\* stopRecognition passing the request on only when the engine is started.
stopRecognition_guarded ==
    /\ calls' = [calls EXCEPT !.stopRecognition = @ + 1]
    /\ IF engine.started
       THEN /\ engineCalls' = <<"stop">>
            /\ requests' = [requests EXCEPT !.stop = @ + 1]
       ELSE /\ engineCalls' = <<>>
            /\ UNCHANGED requests
    /\ Returns("stopRecognition", Undefined, self)
    /\ UNCHANGED <<engine, registered>>

stopRecognition ==
    /\ engineCalls' = <<"stop">>
    /\ calls' = [calls EXCEPT !.stopRecognition = @ + 1]
    /\ requests' = [requests EXCEPT !.stop = @ + 1]
    /\ \E o \in EngineStop(engine) :
          /\ engine' = o.engine
          /\ IF o.raised = "none"
             THEN Returns("stopRecognition", Undefined, self)
             ELSE Raises("stopRecognition", o.raised)
    /\ UNCHANGED registered

\* -------------------------------------------------------------- accessors
\* The accessor returning the value the field had at construction.
maxAlternatives_cached == NewSpeechRecognition.maxAlternatives
maxAlternatives == engine.maxAlternatives
continuous == engine.continuous

\* A read of an accessor by the caller.
Reads(op, value) ==
    /\ self # Undefined
    /\ lastCall' = [op |-> op, arg |-> Undefined, ret |-> value]
    /\ thrown' = "none"
    /\ engineCalls' = <<>>
    /\ event' = NoEvent
    /\ invoked' = <<>>
    /\ UNCHANGED <<window, self, recognition, created, engine, registered, ops,
                   calls, requests, writes>>

GetMaxAlternatives == Reads("maxAlternatives", maxAlternatives)
GetContinuous == Reads("continuous", continuous)

\* ---------------------------------------------------------- engine events
\* The result groups an event may carry: an interim group with one
\* alternative and a final group with two.  An engine's group holds at
\* least one alternative; a result list may be empty.
ResultGroups ==
    {[alternatives |-> <<[transcript |-> "hello"]>>, isFinal |-> FALSE],
     [alternatives |-> <<[transcript |-> "world"], [transcript |-> "hello"]>>,
      isFinal |-> TRUE]}

ResultLists == UNION {[1..n -> ResultGroups] : n \in 0..MaxGroups}

\* The error codes an error event may carry.
ErrorCodes == {"no-speech", "not-allowed"}

Events ==
    {[type |-> "result", results |-> rs] : rs \in ResultLists}
    \cup {[type |-> "error", error |-> c] : c \in ErrorCodes}
    \cup {[type |-> k] : k \in EventKinds \ {"result", "error"}}

\* The handler in the engine's on<type> slot.
Slot(r, type) ==
    CASE type = "result" -> r.onresult
      [] type = "start" -> r.onstart
      [] type = "audiostart" -> r.onaudiostart
      [] type = "soundstart" -> r.onsoundstart
      [] type = "soundend" -> r.onsoundend
      [] type = "speechstart" -> r.onspeechstart
      [] type = "speechend" -> r.onspeechend
      [] type = "nomatch" -> r.onnomatch
      [] type = "error" -> r.onerror
      [] type = "end" -> r.onend

\* The handler reading the last alternative of the first group.
OnResultHandler_lastAlternative(callback, ev) ==
    LET resultsList == ev.results IN
    IF Len(resultsList) = 0
    THEN [invoked |-> <<>>, thrown |-> "TypeError"]
    ELSE LET result == resultsList[1] IN
         IF Len(result.alternatives) = 0
         THEN [invoked |-> <<>>, thrown |-> "TypeError"]
         ELSE LET alternative == result.alternatives[Len(result.alternatives)]
                  text == alternative.transcript
              IN [invoked |-> <<[fn |-> callback, args |-> <<text, result.isFinal>>]>>,
                  thrown |-> "none"]

\* The function setOnResult stores: the callback calls it makes, and the
\* exception it ends with when the event has no first group or alternative.
OnResultHandler(callback, ev) ==
    LET resultsList == ev.results IN
    IF Len(resultsList) = 0
    THEN [invoked |-> <<>>, thrown |-> "TypeError"]
    ELSE LET result == resultsList[1] IN
         IF Len(result.alternatives) = 0
         THEN [invoked |-> <<>>, thrown |-> "TypeError"]
         ELSE LET alternative == result.alternatives[1]
                  text == alternative.transcript
              IN [invoked |-> <<[fn |-> callback, args |-> <<text, result.isFinal>>]>>,
                  thrown |-> "none"]

\* The host calls the handler of a slot with the event.
Call(handler, ev) ==
    CASE handler.type = "null" -> [invoked |-> <<>>, thrown |-> "none"]
      [] handler.type = "raw" ->
            [invoked |-> <<[fn |-> handler.fn, args |-> <<ev>>]>>, thrown |-> "none"]
      [] handler.type = "wrapper" -> OnResultHandler(handler.callback, ev)

\* The engine fires an event at its owner's slot; with its end event the
\* engine is no longer started.
Dispatch(ev) ==
    /\ created > 0
    /\ event' = ev
    /\ engine' = IF ev.type = "end" THEN [engine EXCEPT !.started = FALSE]
                 ELSE engine
    /\ invoked' = Call(Slot(engine, ev.type), ev).invoked
    /\ thrown' = Call(Slot(engine, ev.type), ev).thrown
    /\ lastCall' = NoCall
    /\ engineCalls' = <<>>
    /\ UNCHANGED <<window, self, recognition, created, registered, ops, calls,
                   requests, writes>>

Next ==
    \/ Constructor
    \/ \E b \in BOOLEAN : setInterimResults(b)
    \/ \E l \in Languages : setLanguage(l)
    \/ \E n \in AlternativeCounts : setMaxAlternatives(n)
    \/ \E b \in BOOLEAN : setContinuous(b)
    \/ \E cb \in Callbacks : setOnResult(cb)
    \/ \E cb \in Callbacks : setOnEnd(cb)
    \/ \E cb \in Callbacks : setOnError(cb)
    \/ \E cb \in Callbacks : setOnStart(cb)
    \/ \E cb \in Callbacks : setOnAudioStart(cb)
    \/ \E cb \in Callbacks : setOnSoundStart(cb)
    \/ \E cb \in Callbacks : setOnSoundEnd(cb)
    \/ \E cb \in Callbacks : setOnSpeechStart(cb)
    \/ \E cb \in Callbacks : setOnSpeechEnd(cb)
    \/ \E cb \in Callbacks : setOnNoMatch(cb)
    \/ startRecognition
    \/ stopRecognition
    \/ GetMaxAlternatives
    \/ GetContinuous
    \/ \E ev \in Events : Dispatch(ev)

Spec == Init /\ [][Next]_vars

\* ------------------------------------------------- the engine object, live
\* The values code other than the builder gives the engine's fields.
HostAlternativeCounts == {3}

\* The engine object is an ordinary property of the builder: code that
\* holds it assigns one of its fields without calling a builder setter.
EngineFieldChanges(field, value) ==
    /\ created > 0
    /\ writes < MaxHostWrites
    /\ writes' = writes + 1
    /\ engine' = [engine EXCEPT ![field] = value]
    /\ lastCall' = NoCall
    /\ thrown' = "none"
    /\ engineCalls' = <<>>
    /\ event' = NoEvent
    /\ invoked' = <<>>
    /\ UNCHANGED <<window, self, recognition, created, registered, ops, calls,
                   requests>>

\* The builder's configuration and accessors over an engine object whose
\* fields may also change under it.
NextLive ==
    \/ Constructor
    \/ \E b \in BOOLEAN : setInterimResults(b)
    \/ \E l \in Languages : setLanguage(l)
    \/ \E n \in AlternativeCounts : setMaxAlternatives(n)
    \/ \E b \in BOOLEAN : setContinuous(b)
    \/ GetMaxAlternatives
    \/ GetContinuous
    \/ \E n \in HostAlternativeCounts : EngineFieldChanges("maxAlternatives", n)
    \/ \E b \in BOOLEAN : EngineFieldChanges("continuous", b)

SpecLive == Init /\ [][NextLive]_vars

\* ==================================================================== claims

\* The result event of the last step carries a first group with a first
\* alternative, and the caller has registered a result callback.
ResultDelivered ==
    /\ event.type = "result"
    /\ Registered("result") # Undefined
    /\ Len(event.results) >= 1
    /\ Len(event.results[1].alternatives) >= 1

\* C1: a result event with a first group that has a first alternative
\* invokes the callback registered with setOnResult exactly once, with the
\* transcript of the first group's first alternative and that group's
\* isFinal flag.
C1_FirstAlternativeOfFirstGroup ==
    ResultDelivered =>
        invoked = <<[fn |-> Registered("result"),
                     args |-> <<event.results[1].alternatives[1].transcript,
                                event.results[1].isFinal>>]>>

\* C1 witness: one group, two alternatives, final; f("world", TRUE) was called.
C1_Witness ==
    /\ event.type = "result"
    /\ Len(event.results) = 1
    /\ Len(event.results[1].alternatives) = 2
    /\ invoked = <<[fn |-> "f", args |-> <<"world", TRUE>>]>>

\* C2: a result event carrying several groups invokes the registered
\* callback with the transcript and isFinal flag of the newest (last) group.
C2_NewestGroup ==
    (/\ ResultDelivered
     /\ Len(event.results) >= 2
     /\ Len(event.results[Len(event.results)].alternatives) >= 1)
    => invoked =
        <<[fn |-> Registered("result"),
           args |-> <<event.results[Len(event.results)].alternatives[1].transcript,
                      event.results[Len(event.results)].isFinal>>]>>

\* What holds of a state as far as construction goes: without a recognition
\* constructor in the host there is no builder and no engine object, and the
\* attempt ended in an Error; a builder that exists holds the one engine
\* object that was created.
ConstructionState ==
    /\ SpeechRecognition(window) = Undefined =>
          /\ self = Undefined
          /\ recognition = NoEngine
          /\ created = 0
          /\ lastCall.op = "new" => thrown = "Error"
    /\ self # Undefined =>
          /\ recognition # NoEngine
          /\ created = 1
          /\ recognition = created

\* C3: construction without a recognition capability throws and yields no
\* builder; a builder that exists owns exactly one engine handle, and no
\* step changes that handle.
C3_ConstructionAllOrNothing ==
    [][/\ ConstructionState'
       /\ self # Undefined => (self' = self /\ recognition' = recognition)]_vars

\* C3 witness: the constructor has thrown in a host without the capability.
C3_Witness ==
    /\ SpeechRecognition(window) = Undefined
    /\ lastCall.op = "new"
    /\ thrown = "Error"
    /\ self = Undefined

\* C4: a result event invokes only the callback most recently passed to
\* setOnResult, and none of the callbacks passed earlier.
C4_LastRegistrationWins ==
    event.type = "result" =>
        /\ \A i \in 1..Len(invoked) : invoked[i].fn = Registered("result")
        /\ ResultDelivered => Len(invoked) = 1

\* C4 witness: f was registered, then g, and the result event invoked g.
C4_Witness ==
    /\ registered["result"] = <<"f", "g">>
    /\ event.type = "result"
    /\ Len(invoked) = 1
    /\ invoked[1].fn = "g"

\* C5: every event kind has its own slot: a step that registers no callback
\* for kind k leaves the handler that fires for k as it was, for every kind
\* k whose callback the caller has registered.
C5_OwnSlotPerKind ==
    [][\A k \in EventKinds :
         (registered[k] # <<>> /\ registered'[k] = registered[k])
         => Slot(engine', k) = Slot(engine, k)]_vars

\* C6: the callback registered with setOnAudioStart is invoked by the
\* engine's audiostart event, and the start event invokes only the callback
\* registered with setOnStart.
C6_AudioStartCallback ==
    /\ (event.type = "audiostart" /\ Registered("audiostart") # Undefined)
       => invoked = <<[fn |-> Registered("audiostart"), args |-> <<event>>]>>
    /\ event.type = "start"
       => invoked = IF Registered("start") = Undefined THEN <<>>
                    ELSE <<[fn |-> Registered("start"), args |-> <<event>>]>>

\* The names of the four configuration setters and the ten callback setters.
SetterNames ==
    {"setInterimResults", "setLanguage", "setMaxAlternatives", "setContinuous",
     "setOnResult", "setOnEnd", "setOnError", "setOnStart", "setOnAudioStart",
     "setOnSoundStart", "setOnSoundEnd", "setOnSpeechStart", "setOnSpeechEnd",
     "setOnNoMatch"}

\* C7: every setter call returns the builder instance it was called on.
C7_SettersReturnThis ==
    lastCall.op \in SetterNames =>
        /\ self = BuilderId
        /\ lastCall.ret = self

\* C7 witness: the second call of a chain, setOnNoMatch(g), returned the
\* builder.
C7_Witness ==
    /\ lastCall = [op |-> "setOnNoMatch", arg |-> "g", ret |-> BuilderId]
    /\ ops = 2

C9_AccessorReturnsValueSet ==
    [][/\ (lastCall.op = "setMaxAlternatives" /\ lastCall'.op = "maxAlternatives")
          => lastCall'.ret = lastCall.arg
       /\ (lastCall.op = "setContinuous" /\ lastCall'.op = "continuous")
          => lastCall'.ret = lastCall.arg]_vars

\* C9 witness: maxAlternatives was read as 0, a value only the setter gives,
\* after two setter calls.
C9_Witness ==
    /\ lastCall.op = "maxAlternatives"
    /\ lastCall.ret = 0
    /\ ops = 2

\* The configuration setter calls, by the field they assign.
ConfigCalls ==
    [field : {"interimResults"}, value : BOOLEAN]
    \cup [field : {"lang"}, value : Languages]
    \cup [field : {"maxAlternatives"}, value : AlternativeCounts]
    \cup [field : {"continuous"}, value : BOOLEAN]

\* The engine object r after the configuration setter call c.
Apply(r, c) ==
    CASE c.field = "interimResults" -> AssignInterimResults(r, c.value)
      [] c.field = "lang" -> AssignLang(r, c.value)
      [] c.field = "maxAlternatives" -> AssignMaxAlternatives(r, c.value)
      [] c.field = "continuous" -> AssignContinuous(r, c.value)

\* C10: from every reachable engine state, two configuration setters for
\* distinct fields leave the same engine fields in either order.
C10_ConfigSettersCommute ==
    \A c, d \in ConfigCalls :
        c.field # d.field =>
            Apply(Apply(engine, c), d) = Apply(Apply(engine, d), c)

\* C10 witness: setLanguage("en-US") and setContinuous(TRUE) were the two
\* calls made, and both fields hold the values set.
C10_Witness ==
    /\ ops = 2
    /\ lastCall.op \in {"setLanguage", "setContinuous"}
    /\ engine.lang = "en-US"
    /\ engine.continuous = TRUE

\* C11: an error event is passed as it is, once, to the callback last
\* registered with setOnError, or to nothing when none was registered; the
\* step calls no engine method, raises nothing and leaves the engine's
\* fields and slots and the builder as they were.
C11_ErrorEventForwarded ==
    [][event'.type = "error" =>
         /\ invoked' = IF Registered("error") = Undefined THEN <<>>
                       ELSE <<[fn |-> Registered("error"), args |-> <<event'>>]>>
         /\ thrown' = "none"
         /\ engineCalls' = <<>>
         /\ UNCHANGED <<engine, registered, self, recognition, created>>]_vars

\* C11 witness: the error event "not-allowed" reached the registered g.
C11_Witness ==
    /\ event = [type |-> "error", error |-> "not-allowed"]
    /\ Registered("error") = "g"
    /\ invoked = <<[fn |-> "g", args |-> <<event>>]>>

\* C12 as claimed: startRecognition and stopRecognition never raise to the
\* caller and always return the builder, start on a started engine included.
C12_NoSynchronousFailure ==
    lastCall.op \in {"startRecognition", "stopRecognition"} =>
        /\ thrown = "none"
        /\ lastCall.ret = self

\* C12 as amended: the builder raises nothing of its own and reports no
\* failure through its return value: a start or stop call that the engine
\* lets return returns the builder, and the only exception that reaches the
\* caller is the one the engine's start raised on a started engine.
C12_OnlyTheEngineRaises ==
    [][lastCall'.op \in {"startRecognition", "stopRecognition"} =>
         IF thrown' = "none"
         THEN lastCall'.ret = self
         ELSE /\ lastCall'.op = "startRecognition"
              /\ engine.started
              /\ thrown' = "InvalidStateError"
              /\ engineCalls' = <<"start">>
              /\ lastCall'.ret = Undefined]_vars

\* C12 witness: the second startRecognition ended with the engine's
\* InvalidStateError instead of returning.
C12_Witness ==
    /\ lastCall.op = "startRecognition"
    /\ lastCall.ret = Undefined
    /\ thrown = "InvalidStateError"

\* C13: the engine has received as many start calls as startRecognition was
\* called and as many stop calls as stopRecognition was called, whatever the
\* engine's state was at each call.
C13_EveryCallReachesTheEngine ==
    /\ requests.start = calls.startRecognition
    /\ requests.stop = calls.stopRecognition
    /\ calls.startRecognition + calls.stopRecognition <= ops

\* C13 witness: stopRecognition, called on an engine that was never started,
\* reached the engine.
C13_Witness ==
    /\ lastCall.op = "stopRecognition"
    /\ calls = [startRecognition |-> 0, stopRecognition |-> 1]
    /\ requests = [start |-> 0, stop |-> 1]
    /\ ~engine.started

\* C14: a stopRecognition call leaves every handler slot as it was, and once
\* the engine has received a stop request a result event or an end event is
\* still passed to the callback registered for it.
C14_StopClearsNoSlot ==
    [][/\ lastCall'.op = "stopRecognition" =>
             \A k \in EventKinds : Slot(engine', k) = Slot(engine, k)
       /\ (requests'.stop >= 1 /\ event'.type = "end"
             /\ registered'["end"] # <<>>)
          => /\ Len(invoked') = 1
             /\ invoked'[1].fn = registered'["end"][Len(registered'["end"])]
       /\ (requests'.stop >= 1 /\ event'.type = "result"
             /\ registered'["result"] # <<>>
             /\ Len(event'.results) >= 1
             /\ Len(event'.results[1].alternatives) >= 1)
          => /\ Len(invoked') = 1
             /\ invoked'[1].fn = registered'["result"][Len(registered'["result"])]
      ]_vars

\* C14 witness: after setOnEnd(f) and a stop request, the end event invoked f.
C14_Witness ==
    /\ requests.stop = 1
    /\ registered["end"] = <<"f">>
    /\ event.type = "end"
    /\ invoked = <<[fn |-> "f", args |-> <<event>>]>>

\* The callbacks the caller passed to the setter of `kind`.
EverRegistered(kind) == {registered[kind][i] : i \in 1..Len(registered[kind])}

C16_AccessorsReadTheEngine ==
    /\ lastCall.op = "maxAlternatives" => lastCall.ret = engine.maxAlternatives
    /\ lastCall.op = "continuous" => lastCall.ret = engine.continuous
    /\ lastCall.op = "setMaxAlternatives" =>
          /\ engine.maxAlternatives = lastCall.arg
          /\ thrown = "none"
          /\ lastCall.ret = self

\* C16 witness: the accessor returned 3, a value no builder call has set.
C16_Witness ==
    /\ lastCall.op = "maxAlternatives"
    /\ lastCall.ret = 3
    /\ writes = 1
====
